---- MODULE Spec2Model ----
(***************************************************************************)
(* Model of libav/pkt_dumper.go: the PktDumper node, its constructor, its  *)
(* dispatch loop (the callback handed to q.Start) and HandlePkt.           *)
(* The CtxQueue, the BaseNode pause gate and the node context are not part *)
(* of pkt_dumper.go; they are modelled from the design document.           *)
(***************************************************************************)
EXTENDS Integers, Sequences, FiniteSets, TLC

(* ---------------------------- bounds ---------------------------------- *)
MaxSends == 2
MaxPauses == 1
MaxNew == 3

\* the goroutines that call HandlePkt concurrently
Producers == {"p1", "p2"}
\* the goroutines that call NewPktDumper concurrently
Callers == {"g1", "g2"}

(* ---------------------------- values ---------------------------------- *)
\* a uint32 is kept as its 32-bit pattern: the values above MaxInt32 are the
\* negative integers of the same two's-complement pattern
MaxInt32 == 2147483647
\* a map[string]interface{}: nil or not, and its entries
NilMap == [nil |-> TRUE, m |-> <<>>]
EmptyMap == [nil |-> FALSE, m |-> <<>>]
UserMap == [nil |-> FALSE, m |-> [k \in {"user", "streamIndex"} |-> IF k = "user" THEN 100 ELSE 101]]
StaticData == {NilMap, EmptyMap, UserMap}
PerItemKeys == {"count", "pts", "stream_idx"}

PatMalformed == "{{"
PatFull == "{{.count}}-{{.pts}}-{{.stream_idx}}-{{.user}}"
PatBadOnIdx1 == "{{if eq .stream_idx 1}}{{.pts.x}}{{end}}{{.count}}"
Patterns == {PatMalformed, PatFull, PatBadOnIdx1}

NilT == "nil"
NoErr == "nil"
NoName == <<>>
NoPattern == ""
NoItem == [id |-> 0, pts |-> 0, idx |-> 0, by |-> "none"]
\* the attributes of a packet the node reads: Pts() and StreamIndex()
Packets == {[pts |-> 7, idx |-> 0], [pts |-> 8, idx |-> 1]}

VARIABLES
    countPktDumper, newCall, nodes,
    d, err, pattern, t, data, data0,
    count, statIncomingRate, workOpen,
    status, npauses, ctxDone, ctxh,
    q, qStopped, stopCalls,
    pc, cur, c, buf,
    prod, nsent,
    accepted, pausedAccepted, pausedIdle, dispatched, renderLog, dumpLog, events

nodeVars == <<countPktDumper, newCall, nodes, d, err, pattern, t, data0>>
loopVars == <<data, count, statIncomingRate, workOpen, pc, cur, c, buf>>
ctlVars == <<status, npauses, ctxDone, ctxh>>
queueVars == <<q, qStopped, stopCalls>>
prodVars == <<prod, nsent>>
histVars == <<accepted, pausedAccepted, pausedIdle, dispatched, renderLog, dumpLog, events>>
vars == <<nodeVars, loopVars, ctlVars, queueVars, prodVars, histVars>>

(* ------------------------- template engine ----------------------------- *)
\* template.New("").Parse(pattern)
Parse(p) == IF p = PatMalformed THEN [t |-> NilT, err |-> "parse"] ELSE [t |-> p, err |-> NoErr]

\* t.Execute(buf, data): the rendered name is the tuple of substituted values
\* what {{.k}} prints for a map: the value, or "<no value>" for a missing key
Field(m, k) == IF k \in DOMAIN m.m THEN ToString(m.m[k]) ELSE "<no value>"

\* t.Execute(buf, data): the rendered name is the sequence of printed fields
Execute(tpl, m) ==
    CASE tpl = PatFull -> [ok |-> TRUE, out |-> <<Field(m, "count"), Field(m, "pts"),
                                                  Field(m, "stream_idx"), Field(m, "user")>>]
      [] tpl = PatBadOnIdx1 -> IF Field(m, "stream_idx") = "1"
                                  THEN [ok |-> FALSE, out |-> NoName]
                                  ELSE [ok |-> TRUE, out |-> <<Field(m, "count")>>]
      [] OTHER -> [ok |-> FALSE, out |-> NoName]

(* ------------------------------ Init ----------------------------------- *)
\* a caller of NewPktDumper that is not inside a call
NoCall == [at |-> "out", count |-> 0, pattern |-> NoPattern]

Init ==
    /\ countPktDumper = 0 /\ newCall = [g \in Callers |-> NoCall] /\ nodes = <<>>
    /\ d = "nil" /\ err = NoErr /\ pattern = NoPattern /\ t = NilT
    /\ data = NilMap /\ data0 = NilMap
    /\ count = 0 /\ statIncomingRate = 0 /\ workOpen = 0
    /\ status = "none" /\ npauses = 0 /\ ctxDone = FALSE /\ ctxh = "none"
    /\ q = <<>> /\ qStopped = FALSE /\ stopCalls = 0
    /\ pc = "none" /\ cur = NoItem /\ c = 0 /\ buf = NoName
    /\ prod = [p \in Producers |-> NoItem] /\ nsent = 0
    /\ accepted = <<>> /\ pausedAccepted = {} /\ pausedIdle = FALSE /\ dispatched = <<>>
    /\ renderLog = <<>> /\ dumpLog = <<>> /\ events = <<>>

\* an unrecovered panic in the task goroutine ends the process
Alive == pc # "panicked"

(* --------------------------- NewPktDumper ------------------------------ *)
\* atomic.AddUint64(&countPktDumper, uint64(1)); 2^64 calls are out of reach
AddUint64(v) == v + 1

\* the metadata and the outcome of a construction that took the number n
NodeOf(n, p) ==
    [name |-> <<"pkt_dumper_", n>>, label |-> <<"Pkt dumper #", n>>, err |-> Parse(p).err]

\* the construction of the node whose dispatch is followed below, as one step
NewPktDumper(p, m) ==
    /\ d = "nil" /\ err = NoErr
    /\ countPktDumper' = AddUint64(countPktDumper)
    /\ nodes' = Append(nodes, NodeOf(AddUint64(countPktDumper), p))
    /\ newCall' = newCall
    /\ d' = "node"
    /\ pattern' = p
    /\ data' = m /\ data0' = m
    /\ t' = Parse(p).t
    /\ err' = Parse(p).err
    /\ status' = "created"
    /\ UNCHANGED <<count, statIncomingRate, workOpen, pc, cur, c, buf>>
    /\ UNCHANGED <<npauses, ctxDone, ctxh>>
    /\ UNCHANGED <<queueVars, prodVars, histVars>>

(* ------------------- framework: lifecycle of the node ------------------ *)
\* BaseNode.Pause: Running -> Paused
Pause ==
    /\ Alive /\ status = "running" /\ npauses < MaxPauses
    /\ status' = "paused" /\ npauses' = npauses + 1
    /\ pausedIdle' = (pc = "wait")
    /\ UNCHANGED <<ctxDone, ctxh>>
    /\ UNCHANGED <<accepted, pausedAccepted, dispatched, renderLog, dumpLog, events>>
    /\ UNCHANGED <<nodeVars, loopVars, queueVars, prodVars>>

\* BaseNode.Continue: Paused -> Running
Continue ==
    /\ Alive /\ status = "paused"
    /\ status' = "running"
    /\ pausedIdle' = FALSE
    /\ UNCHANGED <<npauses, ctxDone, ctxh>>
    /\ UNCHANGED <<accepted, pausedAccepted, dispatched, renderLog, dumpLog, events>>
    /\ UNCHANGED <<nodeVars, loopVars, queueVars, prodVars>>

\* cancellation of the node's context: Running/Paused -> Stopped, terminal
Cancel ==
    /\ Alive /\ status \in {"running", "paused"}
    /\ status' = "stopped" /\ ctxDone' = TRUE
    /\ pausedIdle' = FALSE
    /\ UNCHANGED <<npauses, ctxh>>
    /\ UNCHANGED <<accepted, pausedAccepted, dispatched, renderLog, dumpLog, events>>
    /\ UNCHANGED <<nodeVars, loopVars, queueVars, prodVars>>

\* BaseNode.HandlePause returns only while the gate is not engaged
GateOpen == status # "paused"

(* ------------------------------ CtxQueue ------------------------------- *)
\* q.Stop(): idempotent, leaves queued items where they are
QueueStop ==
    /\ qStopped' = TRUE
    /\ stopCalls' = stopCalls + 1
    /\ q' = q

\* q.Send(p): never waits; a stopped queue accepts nothing
QueueSend(p) ==
    /\ q' = IF qStopped THEN q ELSE Append(q, prod[p])
    /\ accepted' = IF qStopped THEN accepted ELSE Append(accepted, prod[p])
    /\ pausedAccepted' = IF ~qStopped /\ status = "paused"
                            THEN pausedAccepted \cup {prod[p].id} ELSE pausedAccepted
    /\ UNCHANGED <<qStopped, stopCalls>>

\* mutant: the loop takes the newest item first
QueuePopLast(s) == [item |-> s[Len(s)], rest |-> SubSeq(s, 1, Len(s) - 1)]

\* the item the loop of q.Start hands to its callback next, and what stays queued
QueuePop(s) == [item |-> Head(s), rest |-> Tail(s)]

(* ------------------------------- Start --------------------------------- *)
\* mutant: the task does not spawn the context handler
StartNoHandleCtx ==
    /\ d = "node" /\ err = NoErr /\ status = "created"
    /\ status' = "running"
    /\ ctxh' = "none"
    /\ pc' = "wait"
    /\ UNCHANGED <<npauses, ctxDone>>
    /\ UNCHANGED <<data, count, statIncomingRate, workOpen, cur, c, buf>>
    /\ UNCHANGED <<nodeVars, queueVars, prodVars, histVars>>

\* d.BaseNode.Start(ctx, t, func): the task spawns the context handler
\* (go d.q.HandleCtx), defers q.Stop and enters q.Start
Start ==
    /\ d = "node" /\ err = NoErr /\ status = "created"
    /\ status' = "running"
    /\ ctxh' = "waiting"
    /\ pc' = "wait"
    /\ UNCHANGED <<npauses, ctxDone>>
    /\ UNCHANGED <<data, count, statIncomingRate, workOpen, cur, c, buf>>
    /\ UNCHANGED <<nodeVars, queueVars, prodVars, histVars>>

\* go d.q.HandleCtx(d.Context()): stops the queue once the context is done
HandleCtx ==
    /\ Alive /\ ctxh = "waiting" /\ ctxDone
    /\ ctxh' = "done"
    /\ QueueStop
    /\ UNCHANGED <<status, npauses, ctxDone>>
    /\ UNCHANGED <<nodeVars, loopVars, prodVars, histVars>>

\* mutant: the loop hands over the next item while a dump call is still running
LoopDequeueOverlap ==
    /\ pc \in {"wait", "dumping"} /\ ~qStopped /\ q # <<>>
    /\ cur' = QueuePop(q).item
    /\ q' = QueuePop(q).rest
    /\ dispatched' = Append(dispatched, QueuePop(q).item)
    /\ pc' = "count"
    /\ UNCHANGED <<data, count, statIncomingRate, workOpen, c, buf>>
    /\ UNCHANGED <<qStopped, stopCalls>>
    /\ UNCHANGED <<accepted, pausedAccepted, pausedIdle, renderLog, dumpLog, events>>
    /\ UNCHANGED <<nodeVars, ctlVars, prodVars>>

\* q.Start's loop: take the next item and call the callback with it
LoopDequeue ==
    /\ pc = "wait" /\ ~qStopped /\ q # <<>>
    /\ cur' = QueuePop(q).item
    /\ q' = QueuePop(q).rest
    /\ dispatched' = Append(dispatched, QueuePop(q).item)
    /\ pc' = "count"
    /\ UNCHANGED <<data, count, statIncomingRate, workOpen, c, buf>>
    /\ UNCHANGED <<qStopped, stopCalls>>
    /\ UNCHANGED <<accepted, pausedAccepted, pausedIdle, renderLog, dumpLog, events>>
    /\ UNCHANGED <<nodeVars, ctlVars, prodVars>>

\* q.Start returns once the queue is stopped
LoopExit ==
    /\ pc = "wait" /\ qStopped
    /\ pc' = "stopping"
    /\ UNCHANGED <<data, count, statIncomingRate, workOpen, cur, c, buf>>
    /\ UNCHANGED <<nodeVars, ctlVars, queueVars, prodVars, histVars>>

\* defer d.q.Stop()
DeferredStop ==
    /\ pc = "stopping"
    /\ QueueStop
    /\ pc' = "done"
    /\ UNCHANGED <<data, count, statIncomingRate, workOpen, cur, c, buf>>
    /\ UNCHANGED <<nodeVars, ctlVars, prodVars, histVars>>

(* --------------------- the callback given to q.Start ------------------- *)
\* c := atomic.AddUint32(&d.count, 1)
AddUint32(v) == IF v = MaxInt32 THEN (-MaxInt32) - 1 ELSE v + 1

\* mutant: the stream index is stored under the key streamIndex
CreateDataStreamIndex(m, cnt, pkt) ==
    [nil |-> FALSE,
     m |-> [k \in DOMAIN m.m \cup {"count", "pts", "streamIndex"} |->
               CASE k = "count" -> cnt
                 [] k = "pts" -> pkt.pts
                 [] k = "streamIndex" -> pkt.idx
                 [] OTHER -> m.m[k]]]

\* d.data["count"] = c; d.data["pts"] = pkt.Pts(); d.data["stream_idx"] = pkt.StreamIndex()
CreateData(m, cnt, pkt) ==
    [nil |-> FALSE,
     m |-> [k \in DOMAIN m.m \cup PerItemKeys |->
               CASE k = "count" -> cnt
                 [] k = "pts" -> pkt.pts
                 [] k = "stream_idx" -> pkt.idx
                 [] OTHER -> m.m[k]]]

\* the error event of a failed template execution: d.pattern and d.data
RenderErrorEvent(pkt) ==
    [kind |-> "render", id |-> pkt.id, pattern |-> pattern, data |-> data, name |-> NoName]

\* mutant: the event is built from d.pattern instead of buf
DumpErrorEventPattern(pkt) ==
    [kind |-> "dump", id |-> pkt.id, pattern |-> pattern, data |-> NilMap, name |-> NoName]

\* the error event of a failed dump: buf
DumpErrorEvent(pkt) ==
    [kind |-> "dump", id |-> pkt.id, pattern |-> NoPattern, data |-> NilMap, name |-> buf]

\* mutant: c is read before the increment
HandlerCountStale ==
    /\ pc = "count"
    /\ statIncomingRate' = statIncomingRate + 1
    /\ count' = AddUint32(count)
    /\ c' = count
    /\ pc' = "data"
    /\ UNCHANGED <<data, workOpen, cur, buf>>
    /\ UNCHANGED <<nodeVars, ctlVars, queueVars, prodVars, histVars>>

\* d.statIncomingRate.Add(1); c := atomic.AddUint32(&d.count, 1)
HandlerCount ==
    /\ pc = "count"
    /\ statIncomingRate' = statIncomingRate + 1
    /\ count' = AddUint32(count)
    /\ c' = AddUint32(count)
    /\ pc' = "data"
    /\ UNCHANGED <<data, workOpen, cur, buf>>
    /\ UNCHANGED <<nodeVars, ctlVars, queueVars, prodVars, histVars>>

\* the three writes to d.data; a write to a nil map panics
HandlerData ==
    /\ pc = "data"
    /\ IF data.nil
          THEN /\ pc' = "unwind"
               /\ data' = data
          ELSE /\ pc' = "render"
               /\ data' = CreateData(data, c, cur)
    /\ UNCHANGED <<count, statIncomingRate, workOpen, cur, c, buf>>
    /\ UNCHANGED <<nodeVars, ctlVars, queueVars, prodVars, histVars>>

\* d.statWorkRatio.Add(true) before d.t.Execute
HandlerRenderBegin ==
    /\ pc = "render"
    /\ workOpen' = workOpen + 1
    /\ pc' = "rendering"
    /\ UNCHANGED <<data, count, statIncomingRate, cur, c, buf>>
    /\ UNCHANGED <<nodeVars, ctlVars, queueVars, prodVars, histVars>>

\* mutant: the error branch lacks its return and falls through to the dump
HandlerRenderNoReturn ==
    /\ pc = "rendering"
    /\ workOpen' = workOpen - 1
    /\ renderLog' = Append(renderLog, [id |-> cur.id, data |-> data,
                                       ok |-> Execute(t, data).ok, out |-> Execute(t, data).out])
    /\ buf' = Execute(t, data).out
    /\ events' = IF Execute(t, data).ok THEN events ELSE Append(events, RenderErrorEvent(cur))
    /\ pc' = "dump"
    /\ UNCHANGED <<data, count, statIncomingRate, cur, c>>
    /\ UNCHANGED <<accepted, pausedAccepted, pausedIdle, dispatched, dumpLog>>
    /\ UNCHANGED <<nodeVars, ctlVars, queueVars, prodVars>>

\* d.t.Execute(buf, d.data) and both of its branches
HandlerRender ==
    /\ pc = "rendering"
    /\ workOpen' = workOpen - 1
    /\ renderLog' = Append(renderLog, [id |-> cur.id, data |-> data,
                                       ok |-> Execute(t, data).ok, out |-> Execute(t, data).out])
    /\ IF Execute(t, data).ok
          THEN /\ buf' = Execute(t, data).out
               /\ events' = events
               /\ pc' = "dump"
          ELSE /\ buf' = buf
               /\ events' = Append(events, RenderErrorEvent(cur))
               /\ pc' = "pause"
    /\ UNCHANGED <<data, count, statIncomingRate, cur, c>>
    /\ UNCHANGED <<accepted, pausedAccepted, pausedIdle, dispatched, dumpLog>>
    /\ UNCHANGED <<nodeVars, ctlVars, queueVars, prodVars>>

\* d.statWorkRatio.Add(true); d.fn(pkt, buf.String()) is entered
HandlerDumpBegin ==
    /\ pc = "dump"
    /\ workOpen' = workOpen + 1
    /\ dumpLog' = Append(dumpLog, [id |-> cur.id, by |-> cur.by, name |-> buf, res |-> "running"])
    /\ pc' = "dumping"
    /\ UNCHANGED <<data, count, statIncomingRate, cur, c, buf>>
    /\ UNCHANGED <<accepted, pausedAccepted, pausedIdle, dispatched, renderLog, events>>
    /\ UNCHANGED <<nodeVars, ctlVars, queueVars, prodVars>>

\* mutant: the error branch of the dump lacks d.statWorkRatio.Done(true)
HandlerDumpReturnNoDone(ok) ==
    /\ pc = "dumping"
    /\ workOpen' = IF ok THEN workOpen - 1 ELSE workOpen
    /\ dumpLog' = [dumpLog EXCEPT ![Len(dumpLog)].res = IF ok THEN "ok" ELSE "err"]
    /\ events' = IF ok THEN events ELSE Append(events, DumpErrorEvent(cur))
    /\ pc' = "pause"
    /\ UNCHANGED <<data, count, statIncomingRate, cur, c, buf>>
    /\ UNCHANGED <<accepted, pausedAccepted, pausedIdle, dispatched, renderLog>>
    /\ UNCHANGED <<nodeVars, ctlVars, queueVars, prodVars>>

\* d.fn returns, with or without an error
HandlerDumpReturn(ok) ==
    /\ pc = "dumping"
    /\ workOpen' = workOpen - 1
    /\ dumpLog' = [dumpLog EXCEPT ![Len(dumpLog)].res = IF ok THEN "ok" ELSE "err"]
    /\ events' = IF ok THEN events ELSE Append(events, DumpErrorEvent(cur))
    /\ pc' = "pause"
    /\ UNCHANGED <<data, count, statIncomingRate, cur, c, buf>>
    /\ UNCHANGED <<accepted, pausedAccepted, pausedIdle, dispatched, renderLog>>
    /\ UNCHANGED <<nodeVars, ctlVars, queueVars, prodVars>>

\* defer d.HandlePause(): runs when the callback returns
HandlerPause ==
    /\ pc = "pause"
    /\ GateOpen
    /\ pc' = "wait"
    /\ cur' = NoItem
    /\ UNCHANGED <<data, count, statIncomingRate, workOpen, c, buf>>
    /\ UNCHANGED <<nodeVars, ctlVars, queueVars, prodVars, histVars>>

\* a panicking callback still runs its deferred d.HandlePause and the task's
\* deferred d.q.Stop(), then the panic leaves the task and ends the process
HandlerPanic ==
    /\ pc = "unwind"
    /\ GateOpen
    /\ QueueStop
    /\ pc' = "panicked"
    /\ UNCHANGED <<data, count, statIncomingRate, workOpen, cur, c, buf>>
    /\ UNCHANGED <<nodeVars, ctlVars, prodVars, histVars>>

(* ------------------------------ producers ------------------------------ *)
\* a producer thread calls HandlePkt(pkt)
CallHandlePkt(p, pkt) ==
    /\ Alive /\ d = "node" /\ err = NoErr
    /\ prod[p] = NoItem /\ nsent < MaxSends
    /\ nsent' = nsent + 1
    /\ prod' = [prod EXCEPT ![p] = [id |-> nsent + 1, pts |-> pkt.pts, idx |-> pkt.idx, by |-> p]]
    /\ UNCHANGED <<nodeVars, loopVars, ctlVars, queueVars, histVars>>

\* mutant: the send is a rendezvous with the loop and waits until it is idle
HandlePktRendezvous(p) ==
    /\ Alive /\ prod[p] # NoItem
    /\ pc = "wait"
    /\ QueueSend(p)
    /\ prod' = [prod EXCEPT ![p] = NoItem]
    /\ UNCHANGED nsent
    /\ UNCHANGED <<pausedIdle, dispatched, renderLog, dumpLog, events>>
    /\ UNCHANGED <<nodeVars, loopVars, ctlVars>>

\* mutant: the incoming rate is counted by the caller of HandlePkt
HandlePktCounting(p) ==
    /\ Alive /\ prod[p] # NoItem
    /\ QueueSend(p)
    /\ prod' = [prod EXCEPT ![p] = NoItem]
    /\ statIncomingRate' = statIncomingRate + 1
    /\ UNCHANGED nsent
    /\ UNCHANGED <<pausedIdle, dispatched, renderLog, dumpLog, events>>
    /\ UNCHANGED <<data, count, workOpen, pc, cur, c, buf>>
    /\ UNCHANGED <<nodeVars, ctlVars>>

\* the body of HandlePkt: d.q.Send(pkt), then the call returns
HandlePkt(p) ==
    /\ Alive /\ prod[p] # NoItem
    /\ QueueSend(p)
    /\ prod' = [prod EXCEPT ![p] = NoItem]
    /\ UNCHANGED nsent
    /\ UNCHANGED <<pausedIdle, dispatched, renderLog, dumpLog, events>>
    /\ UNCHANGED <<nodeVars, loopVars, ctlVars>>

Next ==
    \/ \E p \in Patterns, m \in StaticData : NewPktDumper(p, m)
    \/ Start
    \/ Pause
    \/ Continue
    \/ Cancel
    \/ HandleCtx
    \/ \E p \in Producers, pkt \in Packets : CallHandlePkt(p, pkt)
    \/ \E p \in Producers : HandlePkt(p)
    \/ LoopDequeue
    \/ LoopExit
    \/ DeferredStop
    \/ HandlerCount
    \/ HandlerData
    \/ HandlerRenderBegin
    \/ HandlerRender
    \/ HandlerDumpBegin
    \/ \E ok \in BOOLEAN : HandlerDumpReturn(ok)
    \/ HandlerPause
    \/ HandlerPanic

Spec == Init /\ [][Next]_vars

(* ------------------------- reading the histories ----------------------- *)
Ids(log) == {log[i].id : i \in DOMAIN log}
Pos(log, id) == CHOOSE i \in DOMAIN log : log[i].id = id
IsPrefix(a, b) == Len(a) <= Len(b) /\ \A i \in DOMAIN a : a[i] = b[i]
\* the item was handed to the dump strategy or ended in an error event
Handled(id) == id \in Ids(dumpLog) \cup Ids(events)
InHandler == pc \in {"count", "data", "render", "rendering", "dump", "dumping", "pause", "unwind"}
\* the number of items the callback has finished with
NProcessed == Len(dispatched) - (IF InHandler THEN 1 ELSE 0)

(* ------------------------------- C1 ------------------------------------ *)
\* C1: while the pause gate stays engaged no dump-strategy invocation starts;
\* stated for the case the claim names: the gate was engaged while the loop
\* was idle waiting for an item, and has not been released since.
C1_NoDumpStartsWhilePaused ==
    [][(pausedIdle /\ status = "paused" /\ status' = "paused")
          => Len(dumpLog') = Len(dumpLog)]_vars

(* ------------------------------- C2 ------------------------------------ *)
\* C2: an item accepted while the node was paused is never stranded: once the
\* pause is released, with no cancellation, the dispatch loop cannot have ended
\* while such an item is neither dumped nor reported by an error event.
C2_PausedItemsNotStranded ==
    (pc = "panicked" /\ ~ctxDone /\ status = "running")
        => \A id \in pausedAccepted : Handled(id)

C4_FifoDispatch ==
    /\ IsPrefix(dispatched, accepted)
    /\ \A i, j \in DOMAIN dumpLog : i < j =>
          /\ Pos(accepted, dumpLog[i].id) < Pos(accepted, dumpLog[j].id)
          /\ (dumpLog[i].by = dumpLog[j].by => dumpLog[i].id < dumpLog[j].id)

\* two producers, delivered in the opposite order of their calls, both dumped
C4_Witness ==
    /\ Len(dumpLog) >= 2
    /\ dumpLog[1].id > dumpLog[2].id
    /\ dumpLog[1].by # dumpLog[2].by

(* ------------------------------- C5 ------------------------------------ *)
\* what rendering the k-th dispatched item yields, whatever happened before it
Expected(k) == Execute(t, CreateData(data0, k, dispatched[k]))
EventsOf(id) == {j \in DOMAIN events : events[j].id = id}

\* C5: a failed dump yields exactly one error event, which carries the
\* rendered name of that item; every dispatched item - also after a failed
\* dump - is counted and rendered as its position and attributes alone
\* determine, and is dumped under that name when its rendering succeeds.
C5_DumpFailureIsolated ==
    /\ \A i \in DOMAIN dumpLog : dumpLog[i].res = "err" =>
          /\ Cardinality(EventsOf(dumpLog[i].id)) = 1
          /\ \A j \in EventsOf(dumpLog[i].id) :
                events[j].kind = "dump" /\ events[j].name = dumpLog[i].name
    /\ \A k \in DOMAIN renderLog :
          /\ renderLog[k].id = dispatched[k].id
          /\ renderLog[k].ok = Expected(k).ok
          /\ renderLog[k].out = Expected(k).out
          /\ renderLog[k].ok =>
                \/ k = Len(renderLog) /\ pc = "dump"
                \/ \E i \in DOMAIN dumpLog :
                      dumpLog[i].id = renderLog[k].id /\ dumpLog[i].name = renderLog[k].out

\* the dump of the first item failed and the second item was dumped after it
C5_Witness ==
    /\ Len(dumpLog) >= 2
    /\ dumpLog[1].res = "err" /\ dumpLog[2].res = "ok"
    /\ dumpLog[2].name = Expected(2).out

(* ------------------------------- C6 ------------------------------------ *)
\* C6: a failed template execution yields exactly one error event (a render
\* event), no dump invocation for the item, no second dispatch or rendering of
\* it, and leaves the callback at its return, from where the loop goes on.
C6_RenderFailureHandled ==
    \A k \in DOMAIN renderLog : ~renderLog[k].ok =>
        /\ Cardinality(EventsOf(renderLog[k].id)) = 1
        /\ \A j \in EventsOf(renderLog[k].id) : events[j].kind = "render"
        /\ renderLog[k].id \notin Ids(dumpLog)
        /\ renderLog[k].id \notin Ids(q)
        /\ Cardinality({j \in DOMAIN dispatched : dispatched[j].id = renderLog[k].id}) = 1
        /\ Cardinality({j \in DOMAIN renderLog : renderLog[j].id = renderLog[k].id}) = 1
        /\ cur.id = renderLog[k].id => pc = "pause"

\* the first item failed to render and the next queued item was dumped
C6_Witness ==
    /\ Len(renderLog) >= 2 /\ ~renderLog[1].ok
    /\ Len(dumpLog) = 1 /\ dumpLog[1].id = renderLog[2].id

(* ------------------------------- C7 ------------------------------------ *)
\* C7: once the context is cancelled and no item is in flight, no item is
\* dispatched any more: the counter and the dump invocations stay as they are.
C7_NoDispatchAfterCancel ==
    [][(ctxDone /\ ~InHandler)
          => (dispatched' = dispatched /\ count' = count /\ Len(dumpLog') = Len(dumpLog))]_vars

C9_FailedConstructionReturnsNil == err # NoErr => d = "nil"

(* ------------------------------- C10 ----------------------------------- *)
StaticKeysKept ==
    /\ DOMAIN data.m \subseteq DOMAIN data0.m \cup PerItemKeys
    /\ \A k \in DOMAIN data0.m \ PerItemKeys : k \in DOMAIN data.m /\ data.m[k] = data0.m[k]

C11_GateCheckedFirst ==
    [][(pausedIdle /\ status = "paused" /\ status' = "paused")
          => /\ statIncomingRate' = statIncomingRate
             /\ count' = count
             /\ renderLog' = renderLog
             /\ Len(dumpLog') = Len(dumpLog)]_vars

(* ------------------------------- C12 ----------------------------------- *)
\* the uint32 value 2^32 - n, as its bit pattern
FromTop(n) == -n
\* a < b as unsigned 32-bit values
ULess(a, b) == IF (a >= 0) = (b >= 0) THEN a < b ELSE a >= 0

\* a node that has been running for long: it has handled 2^32 - 2 packets,
\* the last of them pkt, and waits for the next one
InitWrap ==
    /\ countPktDumper = 1 /\ newCall = [g \in Callers |-> NoCall]
    /\ nodes = <<NodeOf(1, PatFull)>>
    /\ d = "node" /\ err = NoErr /\ pattern = PatFull /\ t = Parse(PatFull).t
    /\ data0 \in {EmptyMap, UserMap}
    /\ \E pkt \in Packets :
          /\ data = CreateData(data0, FromTop(2), pkt)
          /\ buf = Execute(t, data).out
    /\ count = FromTop(2) /\ c = FromTop(2)
    /\ statIncomingRate = 0 /\ workOpen = 0
    /\ status = "running" /\ npauses = 0 /\ ctxDone = FALSE /\ ctxh = "waiting"
    /\ q = <<>> /\ qStopped = FALSE /\ stopCalls = 0
    /\ pc = "wait" /\ cur = NoItem
    /\ prod = [p \in Producers |-> NoItem] /\ nsent = 0
    /\ accepted = <<>> /\ pausedAccepted = {} /\ pausedIdle = FALSE /\ dispatched = <<>>
    /\ renderLog = <<>> /\ dumpLog = <<>> /\ events = <<>>

NextWrap ==
    \/ Pause
    \/ Continue
    \/ Cancel
    \/ HandleCtx
    \/ \E p \in Producers, pkt \in Packets : CallHandlePkt(p, pkt)
    \/ \E p \in Producers : HandlePkt(p)
    \/ LoopDequeue
    \/ LoopExit
    \/ DeferredStop
    \/ HandlerCount
    \/ HandlerData
    \/ HandlerRenderBegin
    \/ HandlerRender
    \/ HandlerDumpBegin
    \/ \E ok \in BOOLEAN : HandlerDumpReturn(ok)
    \/ HandlerPause

SpecWrap == InitWrap /\ [][NextWrap]_vars

\* C12: whenever the count changes it becomes a larger value (as an unsigned
\* 32-bit integer): it never decreases and never returns to an earlier value,
\* however many items have been dispatched.
C12_CountNeverDecreases == [][count' # count => ULess(count, count')]_vars

(* ------------------------------- C13 ----------------------------------- *)
\* the callback is done with the k-th dispatched item
Ended(k) == k < Len(dispatched) \/ ~InHandler
DumpsOf(id) == {i \in DOMAIN dumpLog : dumpLog[i].id = id}
RendersOf(id) == {i \in DOMAIN renderLog : renderLog[i].id = id}
RenderError(id) ==
    /\ \E i \in RendersOf(id) : ~renderLog[i].ok
    /\ DumpsOf(id) = {}
    /\ Cardinality(EventsOf(id)) = 1
DumpError(id) ==
    /\ \E i \in RendersOf(id) : renderLog[i].ok
    /\ \E i \in DumpsOf(id) : dumpLog[i].res = "err"
    /\ Cardinality(EventsOf(id)) = 1
Success(id) ==
    /\ \E i \in RendersOf(id) : renderLog[i].ok
    /\ \E i \in DumpsOf(id) : dumpLog[i].res = "ok"
    /\ EventsOf(id) = {}

\* C13: every dequeued item is dumped at most once, and only after its
\* successful rendering, gets at most one event, and once the callback is
\* done with it it has ended as a render error, a dump error or a success.
C13_OneOutcomePerItem ==
    \A k \in DOMAIN dispatched :
        /\ Cardinality(DumpsOf(dispatched[k].id)) <= 1
        /\ Cardinality(RendersOf(dispatched[k].id)) <= 1
        /\ Cardinality(EventsOf(dispatched[k].id)) <= 1
        /\ DumpsOf(dispatched[k].id) # {} => \E i \in RendersOf(dispatched[k].id) : renderLog[i].ok
        /\ Ended(k) => \/ RenderError(dispatched[k].id)
                       \/ DumpError(dispatched[k].id)
                       \/ Success(dispatched[k].id)

(* ------------------------------- C14 ----------------------------------- *)
\* C14: handling a dequeued item never aborts the dispatch loop of a node
\* whose construction succeeded, whatever the pattern, the dump strategy and
\* the static data (a nil mapping included).
C14_LoopSurvivesEveryItem == err = NoErr => pc \notin {"unwind", "panicked"}

(* ------------------------------- C15 ----------------------------------- *)
\* the steps of the task goroutine
LoopStep ==
    \/ LoopDequeue \/ LoopExit \/ DeferredStop
    \/ HandlerCount \/ HandlerData \/ HandlerRenderBegin \/ HandlerRender
    \/ HandlerDumpBegin \/ HandlerPause \/ HandlerPanic

\* the goroutines keep running, and a dump call that was entered returns
FairSpec ==
    /\ Spec
    /\ WF_vars(LoopStep)
    /\ WF_vars(HandleCtx)
    /\ WF_vars(\E ok \in BOOLEAN : HandlerDumpReturn(ok))

\* the dispatch loop has left q.Start and the queue is stopped
LoopExited == pc \in {"done", "panicked"} /\ qStopped

RunningDumps == {i \in DOMAIN dumpLog : dumpLog[i].res = "running"}

\* C16: at most one item is being handled at any moment: at most one dump
\* call is in progress, it is the call for the item the callback holds, at
\* most one measured section is open, and the callback holds the latest
\* dispatched item only.
C16_SingleConsumer ==
    /\ Cardinality(RunningDumps) <= 1
    /\ \A i \in RunningDumps :
          i = Len(dumpLog) /\ pc = "dumping" /\ dumpLog[i].id = cur.id
    /\ workOpen <= 1
    /\ InHandler => cur = dispatched[Len(dispatched)]
    /\ ~InHandler => cur = NoItem \/ pc = "panicked"

\* a dump call is in progress while an item of the other producer is queued
C16_Witness ==
    /\ pc = "dumping" /\ Len(q) = 1
    /\ \A p \in Producers : prod[p] = NoItem
    /\ q[1].by # cur.by

(* ------------------------------- C17 ----------------------------------- *)
\* C17: a step of a producer (a HandlePkt call or its send) leaves the count,
\* the variable mapping, the template and the stats as they are, and once the
\* node exists the count and the mapping change only in the steps of the
\* callback that increment the count and write the data.
C17_ProducersLeaveStateAlone ==
    [][/\ prod' # prod =>
             /\ count' = count /\ data' = data /\ t' = t
             /\ statIncomingRate' = statIncomingRate /\ workOpen' = workOpen
       /\ (d = "node" /\ (count' # count \/ data' # data)) =>
             /\ pc \in {"count", "data"}
             /\ prod' = prod /\ q' = q]_vars

\* a packet was sent while the callback was rendering the previous one
C17_Witness ==
    /\ pc = "rendering" /\ count = 1 /\ data.m["count"] = 1
    /\ Len(q) = 1 /\ Len(accepted) = 2
    /\ \A p \in Producers : prod[p] = NoItem

C19_EventContent ==
    \A j \in DOMAIN events :
        /\ events[j].kind = "render" =>
              /\ events[j].pattern = pattern
              /\ \A i \in RendersOf(events[j].id) : events[j].data = renderLog[i].data
        /\ events[j].kind = "dump" =>
              /\ \A i \in DumpsOf(events[j].id) : events[j].name = dumpLog[i].name
              /\ events[j].pattern = pattern

(* ------------------------------- C20 ----------------------------------- *)
\* mutant: the global counter is advanced only for a pattern that parses
NewTakeNumberOnSuccess(g, p) ==
    /\ newCall[g] = NoCall /\ countPktDumper < MaxNew
    /\ countPktDumper' = IF Parse(p).err = NoErr THEN AddUint64(countPktDumper)
                                                 ELSE countPktDumper
    /\ newCall' = [newCall EXCEPT ![g] =
                      [at |-> "built", count |-> AddUint64(countPktDumper), pattern |-> p]]
    /\ UNCHANGED <<nodes, d, err, pattern, t, data0>>
    /\ UNCHANGED <<loopVars, ctlVars, queueVars, prodVars, histVars>>

\* a call of NewPktDumper by goroutine g takes its number:
\* count := atomic.AddUint64(&countPktDumper, uint64(1))
NewTakeNumber(g, p) ==
    /\ newCall[g] = NoCall /\ countPktDumper < MaxNew
    /\ countPktDumper' = AddUint64(countPktDumper)
    /\ newCall' = [newCall EXCEPT ![g] =
                      [at |-> "built", count |-> AddUint64(countPktDumper), pattern |-> p]]
    /\ UNCHANGED <<nodes, d, err, pattern, t, data0>>
    /\ UNCHANGED <<loopVars, ctlVars, queueVars, prodVars, histVars>>

\* the call builds the node with that number, parses the pattern and returns
NewReturn(g) ==
    /\ newCall[g] # NoCall
    /\ nodes' = Append(nodes, NodeOf(newCall[g].count, newCall[g].pattern))
    /\ newCall' = [newCall EXCEPT ![g] = NoCall]
    /\ UNCHANGED <<countPktDumper, d, err, pattern, t, data0>>
    /\ UNCHANGED <<loopVars, ctlVars, queueVars, prodVars, histVars>>

NextNew ==
    \/ \E g \in Callers, p \in Patterns : NewTakeNumber(g, p)
    \/ \E g \in Callers : NewReturn(g)

SpecNew == Init /\ [][NextNew]_vars

\* C20: any two nodes returned by NewPktDumper, also by concurrent calls and
\* also when one of the constructions failed, have distinct names and distinct
\* labels, and no number is held by two calls or by a call and a node.
C20_UniqueNames ==
    /\ \A i, j \in DOMAIN nodes : i # j =>
          nodes[i].name # nodes[j].name /\ nodes[i].label # nodes[j].label
    /\ \A g, h \in Callers : (g # h /\ newCall[g] # NoCall /\ newCall[h] # NoCall) =>
          newCall[g].count # newCall[h].count
    /\ \A g \in Callers, i \in DOMAIN nodes : newCall[g] # NoCall =>
          nodes[i].name # NodeOf(newCall[g].count, newCall[g].pattern).name

\* two concurrent calls returned in the opposite order of their numbers, the
\* first number taken by a construction that failed
C20_Witness ==
    /\ Len(nodes) = MaxNew
    /\ nodes[1].name = NodeOf(2, PatFull).name
    /\ nodes[2].name = NodeOf(1, PatFull).name /\ nodes[2].err # NoErr
====
